---------------------------- MODULE Spec2Model ----------------------------
(***************************************************************************)
(* Model of the sales dashboard script app.py: the memoized loader         *)
(* load_data, the sidebar filter chain and the chart aggregations.         *)
(*                                                                         *)
(* Text cells of EA.csv are sequences of one-character strings.  Amounts   *)
(* are fixed-point numbers counted in hundredths, so that "1,234.50" is    *)
(* 123450.  A numeric cell of a frame is a record [kind, v, s]: a number,  *)
(* a NaN, or a string that read_csv left unconverted.                      *)
(***************************************************************************)
EXTENDS Integers, Sequences, FiniteSets, TLC

(***************************************************************************)
(* Bounds of the model.                                                    *)
(***************************************************************************)
MaxRows == 2   \* data rows in EA.csv
MaxSel  == 1   \* entries a user puts in one multiselect
MaxTopN == 2   \* largest N of the top-N truncation that is examined

(***************************************************************************)
(* Characters and numbers.                                                 *)
(***************************************************************************)
Digits == <<"0", "1", "2", "3", "4", "5", "6", "7", "8", "9">>

IsDigit(c) == \E i \in 1..10 : Digits[i] = c

DigitVal(c) == (CHOOSE i \in 1..10 : Digits[i] = c) - 1

RECURSIVE ParseUInt(_)
ParseUInt(s) ==
  IF s = <<>> THEN 0
  ELSE 10 * ParseUInt(SubSeq(s, 1, Len(s) - 1)) + DigitVal(s[Len(s)])

RECURSIVE FormatUInt(_)
FormatUInt(n) ==
  IF n < 10 THEN <<Digits[n + 1]>>
  ELSE FormatUInt(n \div 10) \o <<Digits[(n % 10) + 1]>>

Cents(n) == n * 100

Num(v) == [kind |-> "num", v |-> v, s |-> <<>>]
NaN    == [kind |-> "nan", v |-> 0, s |-> <<>>]
Str(s) == [kind |-> "str", v |-> 0, s |-> s]

\* missing value of a text column, and of a datetime column
NaNText == "NaN"
NaT     == [year |-> 0, month |-> 0, day |-> 0]

\* str.replace(',', '')
RemoveCommas(s) == SelectSeq(s, LAMBDA c : c # ",")

\* str.strip()
RECURSIVE LStrip(_)
LStrip(s) == IF s # <<>> /\ s[1] = " " THEN LStrip(Tail(s)) ELSE s

RECURSIVE RStrip(_)
RStrip(s) ==
  IF s # <<>> /\ s[Len(s)] = " " THEN RStrip(SubSeq(s, 1, Len(s) - 1)) ELSE s

Strip(s) == RStrip(LStrip(s))

\* a decimal literal: optional sign, digits, optional point and digits
Unsigned(s) == IF s # <<>> /\ s[1] \in {"-", "+"} THEN Tail(s) ELSE s

DotAt(s) == {i \in 1..Len(s) : s[i] = "."}

IsNumeric(s) ==
  LET u == Unsigned(s) IN
    /\ u # <<>>
    /\ Cardinality(DotAt(u)) <= 1
    /\ \A i \in 1..Len(u) : IsDigit(u[i]) \/ u[i] = "."
    /\ \E i \in 1..Len(u) : IsDigit(u[i])

\* the value of a decimal literal, in hundredths (two fraction digits kept)
NumericValue(s) ==
  LET u    == Unsigned(s)
      d    == IF DotAt(u) = {} THEN Len(u) + 1 ELSE CHOOSE i \in DotAt(u) : TRUE
      int  == SubSeq(u, 1, d - 1)
      frac == SubSeq(u, d + 1, Len(u))
      f2   == SubSeq(frac \o <<"0", "0">>, 1, 2)
      mag  == Cents(ParseUInt(int)) + ParseUInt(f2)
  IN IF s[1] = "-" THEN 0 - mag ELSE mag

\* str(x) of a number cell, as astype(str) writes it
StrOfNum(v) ==
  LET mag == IF v < 0 THEN 0 - v ELSE v
      f   == mag % 100
  IN (IF v < 0 THEN <<"-">> ELSE <<>>)
       \o FormatUInt(mag \div 100) \o <<".">>
       \o <<Digits[(f \div 10) + 1], Digits[(f % 10) + 1]>>

\* pd.to_numeric(..., errors='coerce') of one string
ToNumeric(s) == IF IsNumeric(s) THEN Num(NumericValue(s)) ELSE NaN

(***************************************************************************)
(* Calendar: timestamps are [year, month, day] records.                    *)
(***************************************************************************)
IsLeap(y) == (y % 4 = 0 /\ y % 100 # 0) \/ y % 400 = 0

MonthLengths == <<31, 28, 31, 30, 31, 30, 31, 31, 30, 31, 30, 31>>

DaysInMonth(y, m) == IF m = 2 /\ IsLeap(y) THEN 29 ELSE MonthLengths[m]

DaysBeforeMonth(y, m) ==
  <<0, 31, 59, 90, 120, 151, 181, 212, 243, 273, 304, 334>>[m]
    + (IF m > 2 /\ IsLeap(y) THEN 1 ELSE 0)

\* proleptic Gregorian ordinal: 0001-01-01 is day 1, a Monday
Ordinal(ts) ==
  LET y1 == ts.year - 1 IN
    y1 * 365 + (y1 \div 4) - (y1 \div 100) + (y1 \div 400)
      + DaysBeforeMonth(ts.year, ts.month) + ts.day

DateLE(a, b) == Ordinal(a) <= Ordinal(b)

month_names == <<"January", "February", "March", "April", "May", "June", "July",
                 "August", "September", "October", "November", "December">>

day_names == <<"Monday", "Tuesday", "Wednesday", "Thursday", "Friday",
               "Saturday", "Sunday">>

quarter_order == <<"Q1", "Q2", "Q3", "Q4">>

day_of_week_order == <<"Monday", "Tuesday", "Wednesday", "Thursday", "Friday",
                       "Saturday", "Sunday">>

\* .dt.month_name(), .dt.day_name(), .dt.quarter formatted as f'Q{x}'
MonthName(ts) == month_names[ts.month]

DayName(ts) == day_names[((Ordinal(ts) + 6) % 7) + 1]

QuarterLabel(ts) == quarter_order[((ts.month - 1) \div 3) + 1]

\* a two-digit year is read into 1969..2068
FullYear(s) ==
  LET n == ParseUInt(s) IN
    IF Len(s) = 2 THEN (IF n < 69 THEN 2000 + n ELSE 1900 + n) ELSE n

\* 'DD-MM-YY' or 'DD-MM-YYYY'
IsDateText(s) ==
  /\ Len(s) \in {8, 10}
  /\ s[3] = "-" /\ s[6] = "-"
  /\ \A i \in (1..Len(s)) \ {3, 6} : IsDigit(s[i])

\* pd.to_datetime(..., errors='coerce', dayfirst=True) of one cell
ToDatetime(cell) ==
  IF cell.kind = "nan" THEN NaT
  ELSE IF cell.kind = "num" THEN [year |-> 1970, month |-> 1, day |-> 1]
  ELSE IF ~IsDateText(cell.s) THEN NaT
  ELSE LET d == ParseUInt(SubSeq(cell.s, 1, 2))
           m == ParseUInt(SubSeq(cell.s, 4, 5))
           y == FullYear(SubSeq(cell.s, 7, Len(cell.s)))
       IN IF m \in 1..12 /\ y >= 1 /\ d >= 1 /\ d <= DaysInMonth(y, m)
          THEN [year |-> y, month |-> m, day |-> d]
          ELSE NaT

(***************************************************************************)
(* The source file EA.csv: a header row and data rows.  A data row maps    *)
(* each header name to the text of its cell.  Cells of the date and        *)
(* number columns are character sequences; cells of the other columns are  *)
(* whole strings, "" being an empty cell.                                  *)
(***************************************************************************)
Header == <<"Posting Date ", "Document No.", "Sell to State", "Product Group",
            "Channel", "Quantity", "Final Line Amount (A-B+C)">>

\* the columns whose cells are spelled out character by character
CharHeaders == {"Posting Date ", "Quantity", "Final Line Amount (A-B+C)"}

RawRow(date, doc, state, group, channel, qty, amount) ==
  [h \in {Header[i] : i \in 1..Len(Header)} |->
     CASE h = "Posting Date "             -> date
       [] h = "Document No."              -> doc
       [] h = "Sell to State"             -> state
       [] h = "Product Group"             -> group
       [] h = "Channel"                   -> channel
       [] h = "Quantity"                  -> qty
       [] h = "Final Line Amount (A-B+C)" -> amount]

\* 10 Jul 2024 (a Wednesday), 1 Jan 2024 (a Monday), 3 Jan 2024 (a
\* Wednesday, four-digit year), and 31 Feb, which is no date
Text_10_07_24   == <<"1", "0", "-", "0", "7", "-", "2", "4">>
Text_01_01_24   == <<"0", "1", "-", "0", "1", "-", "2", "4">>
Text_03_01_2024 == <<"0", "3", "-", "0", "1", "-", "2", "0", "2", "4">>
Text_31_02_24   == <<"3", "1", "-", "0", "2", "-", "2", "4">>

Text_1000    == <<"1", "0", "0", "0">>
Text_1500    == <<"1", "5", "0", "0">>
Text_800     == <<" ", "8", "0", "0">>
Text_1234_50 == <<"1", ",", "2", "3", "4", ".", "5", "0">>
Text_1234    == <<" ", "1", ",", "2", "3", "4", " ">>
Text_NA      == <<"N", "/", "A">>
Text_1       == <<"1">>
Text_2       == <<"2">>

\* the data rows of the register that a source file is an extract of: two
\* lines of document D1 above 1000, and a line of exactly 1000
Register ==
  << RawRow(Text_10_07_24,   "D1", "South", "B", "Online", Text_2,    Text_1500),
     RawRow(Text_01_01_24,   "D2", "North", "A", "Retail", Text_1234, Text_1000),
     RawRow(Text_03_01_2024, "D1", "",      "A", "Online", Text_NA,   Text_1500),
     RawRow(Text_31_02_24,   "D3", "North", "B", "Retail", Text_1,    Text_800),
     RawRow(Text_01_01_24,   "D3", "South", "A", "",       Text_1,    Text_1234_50) >>

\* the rows of the register at the positions of S, in the register's order
RECURSIVE Extract(_, _)
Extract(S, from) ==
  IF from > Len(Register) THEN <<>>
  ELSE (IF from \in S THEN <<Register[from]>> ELSE <<>>) \o Extract(S, from + 1)

\* a file with every column: the header and at most MaxRows rows of the
\* register
FullFiles ==
  [header : {Header},
   rows : {Extract(S, 1) : S \in {T \in SUBSET (1..Len(Register)) :
                                     Cardinality(T) <= MaxRows}}]

\* the file without its column h
WithoutColumn(file, h) ==
  [header |-> SelectSeq(file.header, LAMBDA c : c # h),
   rows   |-> [i \in 1..Len(file.rows) |->
                 [c \in DOMAIN file.rows[i] \ {h} |-> file.rows[i][c]]]]

\* EA.csv: a file with every column, or one that has no Quantity column
SourceFiles == FullFiles \cup {WithoutColumn(f, "Quantity") : f \in FullFiles}

(***************************************************************************)
(* pd.read_csv: the default missing-value markers become NaN; a column     *)
(* whose remaining cells are all decimal literals becomes a number column, *)
(* any other column keeps its cells as strings.                            *)
(***************************************************************************)
na_values == {<<>>, <<"N", "/", "A">>, <<"N", "A">>, <<"N", "a", "N">>,
              <<"n", "a", "n">>}

IsNumberColumn(file, h) ==
  \A i \in 1..Len(file.rows) :
     \/ file.rows[i][h] \in na_values
     \/ IsNumeric(Strip(file.rows[i][h]))

ReadCell(file, h, i) ==
  LET text == file.rows[i][h] IN
    IF h \in CharHeaders
    THEN IF text \in na_values THEN NaN
         ELSE IF IsNumberColumn(file, h) THEN Num(NumericValue(Strip(text)))
         ELSE Str(text)
    ELSE IF text = "" THEN NaNText ELSE text

\* a frame: its column labels in order, and its rows in order; a row maps
\* "index" to its index label and each column label to a cell
Frame(columns, rows) == [ok |-> TRUE, columns |-> columns, rows |-> rows]

EmptyFrame == Frame(<<>>, <<>>)

\* what load_data leaves behind when it reports an error and stops the script
LoadError == [ok |-> FALSE, columns |-> <<>>, rows |-> <<>>]

Labels(columns) == {columns[i] : i \in 1..Len(columns)}

read_csv(file) ==
  Frame(file.header,
        [i \in 1..Len(file.rows) |->
           [c \in Labels(file.header) \cup {"index"} |->
              IF c = "index" THEN i - 1 ELSE ReadCell(file, c, i)]])

(***************************************************************************)
(* load_data, step by step.                                                *)
(***************************************************************************)
\* df.columns.str.strip(): the one header of the file that carries blanks
StripLabel(h) == IF h = "Posting Date " THEN "Posting Date" ELSE h

rename_columns ==
  [k \in {"Final Line Amount (A-B+C)", "Posting Date", "Sell to State",
          "Product Group", "Customer Name", "MRP Category", "Gender", "Brands",
          "Channel", "Item Description", "Sales Article", "Quantity",
          "Unit Price", "GL Account Code", "Account Name", "ASM Name",
          "Item Category", "Product Type", "Online Store", "Company Name"} |->
     CASE k = "Final Line Amount (A-B+C)" -> "Final_Line_Amount"
       [] k = "Posting Date"     -> "Posting_Date"
       [] k = "Sell to State"    -> "Region"
       [] k = "Product Group"    -> "Product_Group"
       [] k = "Customer Name"    -> "Customer_Name"
       [] k = "MRP Category"     -> "MRP_Category"
       [] k = "Gender"           -> "Gender"
       [] k = "Brands"           -> "Brand"
       [] k = "Channel"          -> "Sales_Channel"
       [] k = "Item Description" -> "Item_Description"
       [] k = "Sales Article"    -> "Sales_Article"
       [] k = "Quantity"         -> "Quantity"
       [] k = "Unit Price"       -> "Unit_Price"
       [] k = "GL Account Code"  -> "GL_Account_Code"
       [] k = "Account Name"     -> "Account_Name"
       [] k = "ASM Name"         -> "ASM_Name"
       [] k = "Item Category"    -> "Item_Category"
       [] k = "Product Type"     -> "Product_Type"
       [] k = "Online Store"     -> "Online_Store"
       [] k = "Company Name"     -> "Company_Name"]

RenameLabel(h) == IF h \in DOMAIN rename_columns THEN rename_columns[h] ELSE h

\* the frame with every column label h replaced by f(h)
Relabel(frame, f(_)) ==
  LET old(c) == CHOOSE i \in 1..Len(frame.columns) : f(frame.columns[i]) = c
      new    == [i \in 1..Len(frame.columns) |-> f(frame.columns[i])]
  IN Frame(new,
           [i \in 1..Len(frame.rows) |->
              [c \in Labels(new) \cup {"index"} |->
                 IF c = "index" THEN frame.rows[i]["index"]
                 ELSE frame.rows[i][frame.columns[old(c)]]]])

HasColumn(frame, c) == c \in Labels(frame.columns)

\* df[c] = value(row), for every row: an existing column is overwritten, a
\* new one is appended
Assign(frame, c, value(_)) ==
  LET cols == IF HasColumn(frame, c) THEN frame.columns
              ELSE Append(frame.columns, c)
  IN Frame(cols,
           [i \in 1..Len(frame.rows) |->
              [k \in Labels(cols) \cup {"index"} |->
                 IF k = c THEN value(frame.rows[i]) ELSE frame.rows[i][k]]])

\* the rows of the frame that pass keep(row): boolean indexing
Where(frame, keep(_)) == Frame(frame.columns, SelectSeq(frame.rows, keep))

\* df.dropna(subset=['Posting_Date'])
DropNaT(frame) == Where(frame, LAMBDA r : r["Posting_Date"] # NaT)

\* df['Final_Line_Amount'] > 1000 compares every cell with an integer and
\* raises TypeError on a cell that is a string
ComparisonRaises(frame) ==
  \E i \in 1..Len(frame.rows) : frame.rows[i]["Final_Line_Amount"].kind = "str"

\* the comparison with 1000 let through
SaleAtLeast1000(r) ==
  r["Final_Line_Amount"].kind = "num" /\ r["Final_Line_Amount"].v >= Cents(1000)

SaleOver1000(r) ==
  r["Final_Line_Amount"].kind = "num" /\ r["Final_Line_Amount"].v > Cents(1000)

numeric_cols == <<"Quantity", "Final_Line_Amount">>

\* .astype(str).str.replace(',', '').str.strip(), then pd.to_numeric
CoerceCell(cell) ==
  LET text == CASE cell.kind = "num" -> StrOfNum(cell.v)
                [] cell.kind = "nan" -> <<"n", "a", "n">>
                [] cell.kind = "str" -> cell.s
  IN ToNumeric(Strip(RemoveCommas(text)))

RECURSIVE CoerceColumns(_, _)
CoerceColumns(frame, k) ==
  IF k = 0 THEN frame
  ELSE LET done == CoerceColumns(frame, k - 1)
           col  == numeric_cols[k]
       IN IF HasColumn(done, col)
          THEN Assign(done, col, LAMBDA r : CoerceCell(r[col]))
          ELSE done

\* no fillna
FillNaSkipped(cell) == cell

FillNa(cell) == IF cell.kind = "nan" THEN Num(0) ELSE cell

RECURSIVE FillNaColumns(_, _)
FillNaColumns(frame, k) ==
  IF k = 0 THEN frame
  ELSE LET col == numeric_cols[k] IN
         Assign(FillNaColumns(frame, k - 1), col, LAMBDA r : FillNa(r[col]))

DerivedColumns(frame) ==
  LET a == Assign(frame, "Sale_Over_1000", SaleOver1000)
      b == Assign(a, "Year", LAMBDA r : r["Posting_Date"].year)
      c == Assign(b, "Month", LAMBDA r : MonthName(r["Posting_Date"]))
      d == Assign(c, "Day_of_Week", LAMBDA r : DayName(r["Posting_Date"]))
  IN Assign(d, "Quarter", LAMBDA r : QuarterLabel(r["Posting_Date"]))

\* the body of load_data: the frame it returns, or LoadError when a step
\* raises and the except branch stops the script
load_data(file) ==
  LET raw     == read_csv(file)
      renamed == Relabel(Relabel(raw, StripLabel), RenameLabel)
  IN IF ~HasColumn(renamed, "Posting_Date") THEN LoadError
     ELSE LET dated == DropNaT(Assign(renamed, "Posting_Date",
                                      LAMBDA r : ToDatetime(r["Posting_Date"])))
          IN IF ~HasColumn(dated, "Final_Line_Amount") THEN LoadError
             ELSE IF ComparisonRaises(dated) THEN LoadError
             ELSE LET coerced == CoerceColumns(DerivedColumns(dated),
                                               Len(numeric_cols))
                  IN IF \E k \in 1..Len(numeric_cols) :
                          ~HasColumn(coerced, numeric_cols[k])
                     THEN LoadError
                     ELSE FillNaColumns(coerced, Len(numeric_cols))

(***************************************************************************)
(* Columns and text order.                                                 *)
(***************************************************************************)
\* the text values of the model in ascending order, as sorted() and groupby
\* order them
Collation == <<"A", "All", "B", "D1", "D2", "D3", "Friday", "Monday", "North",
               "Online", "Q1", "Q2", "Q3", "Q4", "Retail", "Saturday", "South",
               "Sunday", "Thursday", "Tuesday", "Wednesday">>

Sorted(S) == SelectSeq(Collation, LAMBDA x : x \in S)

Column(frame, c) == [i \in 1..Len(frame.rows) |-> frame.rows[i][c]]

\* frame[c].dropna().unique(), as a set
UniqueText(frame, c) ==
  {frame.rows[i][c] : i \in 1..Len(frame.rows)} \ {NaNText}

IsEmpty(frame) == frame.rows = <<>>

RECURSIVE SumSeq(_)
SumSeq(s) == IF s = <<>> THEN 0 ELSE s[1] + SumSeq(Tail(s))

\* frame[c].sum(): missing values are skipped
ColumnSum(frame, c) ==
  SumSeq([i \in 1..Len(frame.rows) |->
            IF frame.rows[i][c].kind = "num" THEN frame.rows[i][c].v ELSE 0])

\* the smallest and the largest of a non-empty set of integers
MinOf(S) == CHOOSE x \in S : \A y \in S : x <= y
MaxOf(S) == CHOOSE x \in S : \A y \in S : y <= x

Dates(frame) == {frame.rows[i]["Posting_Date"] : i \in 1..Len(frame.rows)}

MinDate(frame) == CHOOSE d \in Dates(frame) : \A e \in Dates(frame) : DateLE(d, e)
MaxDate(frame) == CHOOSE d \in Dates(frame) : \A e \in Dates(frame) : DateLE(e, d)

Amounts(frame) ==
  {frame.rows[i]["Final_Line_Amount"].v : i \in 1..Len(frame.rows)}

(***************************************************************************)
(* The sidebar filters, each as the step the script applies to the current *)
(* view.                                                                   *)
(***************************************************************************)
\* the date filter with the end of the range excluded
DateFilterOpenEnd(view, date_range) ==
  IF Len(date_range) = 2
  THEN Where(view, LAMBDA r : /\ DateLE(date_range[1], r["Posting_Date"])
                              /\ ~DateLE(date_range[2], r["Posting_Date"]))
  ELSE view

\* the date filter with a single endpoint taken as the start of the range
DateFilterFromStart(view, date_range) ==
  IF Len(date_range) = 0 THEN view
  ELSE Where(view, LAMBDA r :
               /\ DateLE(date_range[1], r["Posting_Date"])
               /\ Len(date_range) = 2 => DateLE(r["Posting_Date"], date_range[2]))

\* lines 111-115: both bounds inclusive; an incomplete range keeps the view
DateFilter(view, date_range) ==
  IF Len(date_range) = 2
  THEN Where(view, LAMBDA r : /\ DateLE(date_range[1], r["Posting_Date"])
                              /\ DateLE(r["Posting_Date"], date_range[2]))
  ELSE view

\* the selection filter keeping the rows outside the selection
IsinFilterInverted(view, c, selected) ==
  IF "All" \notin selected
  THEN Where(view, LAMBDA r : r[c] \notin selected)
  ELSE view

\* lines 121-122, 126-127, 131-132
IsinFilter(view, c, selected) ==
  IF "All" \notin selected
  THEN Where(view, LAMBDA r : r[c] \in selected)
  ELSE view

\* line 145; no slider is created for an empty view (lines 136, 146)
AmountFilter(view, amount_range) ==
  IF amount_range = <<>> THEN view
  ELSE Where(view, LAMBDA r : /\ r["Final_Line_Amount"].v >= amount_range[1]
                              /\ r["Final_Line_Amount"].v <= amount_range[2])

\* one filter of the sidebar, by the name of its widget, under the widget
\* values w
ApplyFilter(name, view, w) ==
  CASE name = "date_range" -> DateFilter(view, w.date_range)
    [] name = "selected_regions" -> IsinFilter(view, "Region", w.selected_regions)
    [] name = "selected_product_groups" ->
         IsinFilter(view, "Product_Group", w.selected_product_groups)
    [] name = "selected_sales_channels" ->
         IsinFilter(view, "Sales_Channel", w.selected_sales_channels)
    [] name = "amount_range" -> AmountFilter(view, w.amount_range)

RECURSIVE ApplyInOrder(_, _, _)
ApplyInOrder(order, view, w) ==
  IF order = <<>> THEN view
  ELSE ApplyInOrder(Tail(order), ApplyFilter(order[1], view, w), w)

\* the order in which the script applies its filters
filter_order == <<"date_range", "selected_regions", "selected_product_groups",
                  "selected_sales_channels", "amount_range">>

\* lines 111-145: the filtered view of frame d under the widget values w
apply_filters(d, w) == ApplyInOrder(filter_order, d, w)

(***************************************************************************)
(* Aggregations.  A series is a sequence of [key, value] entries, value    *)
(* being a number cell or NaN.                                             *)
(***************************************************************************)
Entry(k, v) == [key |-> k, value |-> v]

GroupSum(frame, c, k, metric) == ColumnSum(Where(frame, LAMBDA r : r[c] = k), metric)

\* frame.groupby(c)[metric].sum(): one group per value of c that is not
\* missing, in ascending order of the group key
GroupBySum(frame, c, metric) ==
  LET keys == Sorted(UniqueText(frame, c)) IN
    [i \in 1..Len(keys) |-> Entry(keys[i], Num(GroupSum(frame, c, keys[i], metric)))]

\* the largest value, the last of equals: keep='last'
LastLargest(series) ==
  CHOOSE i \in 1..Len(series) :
    /\ \A j \in 1..Len(series) : series[j].value.v <= series[i].value.v
    /\ \A j \in (i + 1)..Len(series) : series[j].value.v < series[i].value.v

\* the position nlargest takes next: the largest value, the first of equals
FirstLargest(series) ==
  CHOOSE i \in 1..Len(series) :
    /\ \A j \in 1..Len(series) : series[j].value.v <= series[i].value.v
    /\ \A j \in 1..(i - 1) : series[j].value.v < series[i].value.v

Without(series, i) == SubSeq(series, 1, i - 1) \o SubSeq(series, i + 1, Len(series))

\* Series.nlargest(n): keep='first'
RECURSIVE NLargest(_, _)
NLargest(series, n) ==
  LET present == SelectSeq(series, LAMBDA e : e.value.kind = "num") IN
    IF n = 0 \/ present = <<>> THEN <<>>
    ELSE LET i == FirstLargest(present) IN
           <<present[i]>> \o NLargest(Without(present, i), n - 1)

\* reindex with fill_value=0
ReindexZeroFilled(series, order) ==
  [i \in 1..Len(order) |->
     IF \E j \in 1..Len(series) : series[j].key = order[i]
     THEN series[CHOOSE j \in 1..Len(series) : series[j].key = order[i]]
     ELSE Entry(order[i], Num(0))]

\* Series.reindex(order): an entry per label of order, NaN where the series
\* has none
Reindex(series, order) ==
  [i \in 1..Len(order) |->
     IF \E j \in 1..Len(series) : series[j].key = order[i]
     THEN series[CHOOSE j \in 1..Len(series) : series[j].key = order[i]]
     ELSE Entry(order[i], NaN)]

\* sort_values(ascending=False) over the categories
SortByCategoriesDescending(series, order) ==
  LET RECURSIVE Build(_)
      Build(k) == IF k = 0 THEN <<>>
                  ELSE SelectSeq(series, LAMBDA e : e.key = order[k]) \o
                       Build(k - 1)
  IN Build(Len(order)) \o
       SelectSeq(series, LAMBDA e : \A k \in 1..Len(order) : e.key # order[k])

\* pd.Categorical(keys, categories=order, ordered=True), then sort_values
SortByCategories(series, order) ==
  LET RECURSIVE Build(_)
      Build(k) == IF k = 0 THEN <<>>
                  ELSE Build(k - 1) \o
                       SelectSeq(series, LAMBDA e : e.key = order[k])
  IN Build(Len(order)) \o
       SelectSeq(series, LAMBDA e : \A k \in 1..Len(order) : e.key # order[k])

\* months counted from year 0, and the month-end label of one
MonthNo(ts) == ts.year * 12 + (ts.month - 1)

MonthEnd(n) ==
  [year |-> n \div 12, month |-> (n % 12) + 1,
   day |-> DaysInMonth(n \div 12, (n % 12) + 1)]

\* the months that have rows only, as a groupby on the month would give
MonthSumNoGaps(frame, metric) ==
  LET months == {MonthNo(d) : d \in Dates(frame)}
      RECURSIVE Ascending(_)
      Ascending(S) == IF S = {} THEN <<>>
                      ELSE <<MinOf(S)>> \o Ascending(S \ {MinOf(S)})
      order == Ascending(months)
  IN [i \in 1..Len(order) |->
        Entry(MonthEnd(order[i]),
              Num(ColumnSum(Where(frame,
                      LAMBDA r : MonthNo(r["Posting_Date"]) = order[i]),
                    metric)))]

\* frame.set_index('Posting_Date').resample('M')[metric].sum(): one bin per
\* calendar month from the first month with a row to the last
ResampleMonthSum(frame, metric) ==
  IF IsEmpty(frame) THEN <<>>
  ELSE LET first == MonthNo(MinDate(frame))
           last  == MonthNo(MaxDate(frame))
       IN [i \in 1..(last - first + 1) |->
             Entry(MonthEnd(first + i - 1),
                   Num(ColumnSum(Where(frame,
                           LAMBDA r : MonthNo(r["Posting_Date"]) = first + i - 1),
                         metric)))]

(***************************************************************************)
(* State.                                                                  *)
(***************************************************************************)
VARIABLES
  source,       \* the contents of EA.csv
  cache,        \* what st.cache_data holds for load_data
  pc,           \* "start", "stopped" (st.stop() after a load error), "rendered"
  df,           \* the frame load_data returned to the last run
  ui,           \* the sidebar widgets of the last run: options and values
  filtered_df,  \* the view the last run charted
  charts        \* the aggregates of the last run

vars == <<source, cache, pc, df, ui, filtered_df, charts>>

\* a widget that the run did not create has no options (<<>>) and holds its
\* initial value
NoWidgets ==
  [date_opts |-> <<>>, date_range |-> <<>>,
   all_regions |-> <<>>, selected_regions |-> {"All"},
   all_product_groups |-> <<>>, selected_product_groups |-> {"All"},
   all_sales_channels |-> <<>>, selected_sales_channels |-> {"All"},
   amount_opts |-> <<>>, amount_range |-> <<>>]

NoCharts ==
  [drawn |-> FALSE, total_sales |-> 0, total_transactions |-> 0,
   sales_over_1000 |-> 0, percentage_over_1000 |-> 0, product_sales |-> <<>>,
   region_sales |-> <<>>, high_value_region_sales |-> <<>>,
   high_value_product_sales |-> <<>>, monthly_sales |-> <<>>,
   quarterly_sales |-> <<>>, daily_sales |-> <<>>, monthly_qty |-> <<>>]

\* a user event: the widget that was changed and its new value; "none" is a
\* plain run of the script
NoEvent == [widget |-> "none", value |-> <<>>]

\* in .nlargest(10)
TopProductGroups == 10

\* the value a widget returns in this run: the value the user just gave it,
\* the value it held if it was on the page with the same options, otherwise
\* its default
WidgetValue(name, ev, was, opts, held, default) ==
  IF was # opts THEN default
  ELSE IF ev.widget = name THEN ev.value
  ELSE held

\* the whole view, whatever its amounts
WholeView(view) == view

\* filtered_df[filtered_df['Sale_Over_1000']]
HighValue(view) == Where(view, LAMBDA r : r["Sale_Over_1000"])

\* line 186, in hundredths of a percent and rounded as the metric shows it
PercentageOver1000(sales_over_1000, total_transactions) ==
  IF total_transactions > 0
  THEN (2 * 100 * Cents(sales_over_1000) + total_transactions)
         \div (2 * total_transactions)
  ELSE 0

\* lines 163-478: the aggregates behind the charts
Charts(view) ==
  [drawn           |-> TRUE,
   total_sales     |-> ColumnSum(view, "Final_Line_Amount"),
   total_transactions |-> Cardinality(UniqueText(view, "Document No.")),
   sales_over_1000 |-> Len(HighValue(view).rows),
   percentage_over_1000 |->
     PercentageOver1000(Len(HighValue(view).rows),
                        Cardinality(UniqueText(view, "Document No."))),
   product_sales   |-> NLargest(GroupBySum(view, "Product_Group", "Final_Line_Amount"),
                                TopProductGroups),
   region_sales    |-> GroupBySum(view, "Region", "Final_Line_Amount"),
   high_value_region_sales |->
     GroupBySum(HighValue(view), "Region", "Final_Line_Amount"),
   high_value_product_sales |->
     NLargest(GroupBySum(HighValue(view), "Product_Group", "Final_Line_Amount"),
              TopProductGroups),
   monthly_sales   |-> ResampleMonthSum(view, "Final_Line_Amount"),
   quarterly_sales |-> SortByCategories(
                         GroupBySum(view, "Quarter", "Final_Line_Amount"),
                         quarter_order),
   daily_sales     |-> Reindex(GroupBySum(view, "Day_of_Week", "Final_Line_Amount"),
                               day_of_week_order),
   monthly_qty     |-> ResampleMonthSum(view, "Quantity")]

Options(view, c) == <<"All">> \o Sorted(UniqueText(view, c))

DateOpts(d) == <<MinDate(d), MaxDate(d)>>

AmountOpts(view) == <<MinOf(Amounts(view)), MaxOf(Amounts(view))>>

\* lines 100-115: the date input and the date filter over the loaded frame
WithDateRange(d, date_opts, date_range) ==
  [ui   |-> [NoWidgets EXCEPT !.date_opts = date_opts, !.date_range = date_range],
   view |-> DateFilter(d, date_range)]

DateStage(d, w, ev) ==
  WithDateRange(d, DateOpts(d),
                WidgetValue("date_range", ev, w.date_opts, DateOpts(d),
                            w.date_range, DateOpts(d)))

\* lines 119-122
WithRegions(s, all_regions, selected_regions) ==
  [ui   |-> [s.ui EXCEPT !.all_regions = all_regions,
                         !.selected_regions = selected_regions],
   view |-> IsinFilter(s.view, "Region", selected_regions)]

RegionStage(s, w, ev) ==
  WithRegions(s, Options(s.view, "Region"),
              WidgetValue("selected_regions", ev, w.all_regions,
                          Options(s.view, "Region"), w.selected_regions, {"All"}))

\* lines 124-127
WithProductGroups(s, all_product_groups, selected_product_groups) ==
  [ui   |-> [s.ui EXCEPT !.all_product_groups = all_product_groups,
                         !.selected_product_groups = selected_product_groups],
   view |-> IsinFilter(s.view, "Product_Group", selected_product_groups)]

ProductGroupStage(s, w, ev) ==
  WithProductGroups(s, Options(s.view, "Product_Group"),
                    WidgetValue("selected_product_groups", ev, w.all_product_groups,
                                Options(s.view, "Product_Group"),
                                w.selected_product_groups, {"All"}))

\* lines 129-132
WithSalesChannels(s, all_sales_channels, selected_sales_channels) ==
  [ui   |-> [s.ui EXCEPT !.all_sales_channels = all_sales_channels,
                         !.selected_sales_channels = selected_sales_channels],
   view |-> IsinFilter(s.view, "Sales_Channel", selected_sales_channels)]

SalesChannelStage(s, w, ev) ==
  WithSalesChannels(s, Options(s.view, "Sales_Channel"),
                    WidgetValue("selected_sales_channels", ev, w.all_sales_channels,
                                Options(s.view, "Sales_Channel"),
                                w.selected_sales_channels, {"All"}))

\* lines 136-147
WithAmountRange(s, amount_opts, amount_range) ==
  [ui   |-> [s.ui EXCEPT !.amount_opts = amount_opts,
                         !.amount_range = amount_range],
   view |-> AmountFilter(s.view, amount_range)]

AmountStage(s, w, ev) ==
  IF HasColumn(s.view, "Final_Line_Amount") /\ ~IsEmpty(s.view)
  THEN WithAmountRange(s, AmountOpts(s.view),
                       WidgetValue("amount_range", ev, w.amount_opts,
                                   AmountOpts(s.view), w.amount_range,
                                   AmountOpts(s.view)))
  ELSE s

\* lines 118-147: the other filters, created only for a non-empty view
OtherFilters(s, w, ev) ==
  IF IsEmpty(s.view) THEN s
  ELSE AmountStage(
         SalesChannelStage(
           ProductGroupStage(RegionStage(s, w, ev), w, ev), w, ev), w, ev)

\* lines 99-151: the sidebar of one run over the loaded frame d, with the
\* widgets w of the run before and the user event ev
Sidebar(d, w, ev) ==
  IF IsEmpty(d) THEN [ui |-> NoWidgets, view |-> EmptyFrame]
  ELSE OtherFilters(DateStage(d, w, ev), w, ev)

\* lines 157-478
Render(side) ==
  /\ ui' = side.ui
  /\ filtered_df' = side.view
  /\ charts' = IF IsEmpty(side.view) THEN NoCharts ELSE Charts(side.view)

\* @st.cache_data: the body of load_data runs when nothing is memoized, and
\* what it returns is memoized; a run that stops in the except branch
\* returns nothing
NoCache == [hit |-> FALSE, value |-> EmptyFrame]

CachedLoad ==
  IF cache.hit
  THEN df' = cache.value /\ cache' = cache
  ELSE /\ df' = load_data(source)
       /\ cache' = IF df'.ok THEN [hit |-> TRUE, value |-> df'] ELSE cache

\* one run of the script, top to bottom
RunScript(ev) ==
  /\ CachedLoad
  /\ IF ~df'.ok
     THEN /\ pc' = "stopped"
          /\ ui' = NoWidgets
          /\ filtered_df' = EmptyFrame
          /\ charts' = NoCharts
     ELSE /\ pc' = "rendered"
          /\ \E side \in {Sidebar(df', ui, ev)} : Render(side)

(***************************************************************************)
(* The values a user can give each widget.                                 *)
(***************************************************************************)
\* a completed range within the bounds of the date input, or its first
\* endpoint alone while the second is not picked yet
DateChoices ==
  {<<a>> : a \in Dates(df)}
    \cup {p \in Dates(df) \X Dates(df) : DateLE(p[1], p[2])}

Selections(options) ==
  {S \in SUBSET Labels(options) : Cardinality(S) <= MaxSel}

AmountChoices ==
  LET inside == {a \in Amounts(df) :
                   a >= ui.amount_opts[1] /\ a <= ui.amount_opts[2]}
  IN {p \in inside \X inside : p[1] <= p[2]}

Init ==
  /\ source \in SourceFiles
  /\ cache = NoCache
  /\ pc = "start"
  /\ df = EmptyFrame
  /\ ui = NoWidgets
  /\ filtered_df = EmptyFrame
  /\ charts = NoCharts

\* the page is opened or reloaded
Run ==
  /\ RunScript(NoEvent)
  /\ UNCHANGED source

\* st.sidebar.date_input
DateInput ==
  /\ ui.date_opts # <<>>
  /\ \E v \in DateChoices : RunScript([widget |-> "date_range", value |-> v])
  /\ UNCHANGED source

\* st.sidebar.multiselect("Select Region(s)")
SelectRegions ==
  /\ ui.all_regions # <<>>
  /\ \E v \in Selections(ui.all_regions) :
        RunScript([widget |-> "selected_regions", value |-> v])
  /\ UNCHANGED source

\* st.sidebar.multiselect("Select Product Group(s)")
SelectProductGroups ==
  /\ ui.all_product_groups # <<>>
  /\ \E v \in Selections(ui.all_product_groups) :
        RunScript([widget |-> "selected_product_groups", value |-> v])
  /\ UNCHANGED source

\* st.sidebar.multiselect("Select Sales Channel(s)")
SelectSalesChannels ==
  /\ ui.all_sales_channels # <<>>
  /\ \E v \in Selections(ui.all_sales_channels) :
        RunScript([widget |-> "selected_sales_channels", value |-> v])
  /\ UNCHANGED source

\* st.sidebar.slider("Filter by Final Line Amount")
Slider ==
  /\ ui.amount_opts # <<>>
  /\ \E v \in AmountChoices : RunScript([widget |-> "amount_range", value |-> v])
  /\ UNCHANGED source

Next ==
  \/ Run
  \/ DateInput
  \/ SelectRegions
  \/ SelectProductGroups
  \/ SelectSalesChannels
  \/ Slider

Spec == Init /\ [][Next]_vars

\* EA.csv is replaced on disk by another file.  st.cache_data keys the
\* memoized value on load_data and its arguments, and load_data has no
\* argument: what is memoized stays
ChangeSource ==
  /\ source' \in SourceFiles \ {source}
  /\ UNCHANGED <<cache, pc, df, ui, filtered_df, charts>>

NextWithSourceChanges ==
  \/ Next
  \/ ChangeSource

SpecWithSourceChanges == Init /\ [][NextWithSourceChanges]_vars

(***************************************************************************)
(* Properties of the filter chain.                                         *)
(***************************************************************************)
FilterOrders ==
  {p \in [1..Len(filter_order) -> Labels(filter_order)] :
     \A i, j \in 1..Len(filter_order) : p[i] = p[j] => i = j}

\* the criteria, one row at a time
InDateRange(r, w) ==
  Len(w.date_range) = 2 =>
    /\ Ordinal(w.date_range[1]) <= Ordinal(r["Posting_Date"])
    /\ Ordinal(r["Posting_Date"]) <= Ordinal(w.date_range[2])

InSelection(r, c, selected) == "All" \in selected \/ r[c] \in selected

InAmountRange(r, w) ==
  w.amount_range # <<>> =>
    /\ w.amount_range[1] <= r["Final_Line_Amount"].v
    /\ r["Final_Line_Amount"].v <= w.amount_range[2]

PassesAll(r, w) ==
  /\ InDateRange(r, w)
  /\ InSelection(r, "Region", w.selected_regions)
  /\ InSelection(r, "Product_Group", w.selected_product_groups)
  /\ InSelection(r, "Sales_Channel", w.selected_sales_channels)
  /\ InAmountRange(r, w)

\* C1: whatever the order in which the date, region, product-group,
\* sales-channel and amount filters are applied to the loaded table, the
\* rows that result are the rows of the filtered view, and these are the
\* rows that satisfy every criterion at once.
C1_FiltersCommute ==
  pc = "rendered" =>
    /\ \A p \in FilterOrders : ApplyInOrder(p, df, ui).rows = filtered_df.rows
    /\ filtered_df.rows = SelectSeq(df.rows, LAMBDA r : PassesAll(r, ui))

\* the date filter and the region filter both restrict, and rows are left
C1_Witness ==
  /\ pc = "rendered"
  /\ Len(ui.date_range) = 2 /\ ui.date_range # ui.date_opts
  /\ "All" \notin ui.selected_regions
  /\ Len(filtered_df.rows) >= 1
  /\ Len(filtered_df.rows) < Len(df.rows)

\* the index labels of a frame's rows, in order
IndexLabels(frame) == [i \in 1..Len(frame.rows) |-> frame.rows[i]["index"]]

\* the widget values that differ from w in one widget, which is given a
\* stricter value: a range inside the range, a selection inside the selection
NarrowerDateRanges(w) ==
  {p \in Dates(df) \X Dates(df) :
     /\ DateLE(p[1], p[2])
     /\ Len(w.date_range) = 2 =>
           DateLE(w.date_range[1], p[1]) /\ DateLE(p[2], w.date_range[2])}

NarrowerSelections(selected, c) ==
  IF "All" \in selected THEN SUBSET (UniqueText(df, c) \cup {"All"})
  ELSE SUBSET selected

NarrowerAmountRanges(w) ==
  {p \in Amounts(df) \X Amounts(df) :
     /\ p[1] <= p[2]
     /\ w.amount_range # <<>> =>
           w.amount_range[1] <= p[1] /\ p[2] <= w.amount_range[2]}

Stricter(w) ==
  {[w EXCEPT !.date_range = v] : v \in NarrowerDateRanges(w)}
    \cup {[w EXCEPT !.selected_regions = v] :
            v \in NarrowerSelections(w.selected_regions, "Region")}
    \cup {[w EXCEPT !.selected_product_groups = v] :
            v \in NarrowerSelections(w.selected_product_groups, "Product_Group")}
    \cup {[w EXCEPT !.selected_sales_channels = v] :
            v \in NarrowerSelections(w.selected_sales_channels, "Sales_Channel")}
    \cup {[w EXCEPT !.amount_range = v] : v \in NarrowerAmountRanges(w)}

\* C2: the filtered view holds rows of the loaded table, unaltered, each at
\* most once and in the order of the source, and making one criterion
\* stricter never gives more rows.
C2_FilterNarrows ==
  pc = "rendered" =>
    /\ \A i \in 1..Len(filtered_df.rows) :
          \E j \in 1..Len(df.rows) : df.rows[j] = filtered_df.rows[i]
    /\ \A i, j \in 1..Len(filtered_df.rows) :
          i < j => filtered_df.rows[i]["index"] < filtered_df.rows[j]["index"]
    /\ \A w \in Stricter(ui) :
          Len(apply_filters(df, w).rows) <= Len(filtered_df.rows)

\* a view that kept some rows and lost others, with a stricter selection
\* that loses more
C2_Witness ==
  /\ pc = "rendered"
  /\ Len(filtered_df.rows) >= 1
  /\ Len(filtered_df.rows) < Len(df.rows)
  /\ \E w \in Stricter(ui) :
        Len(apply_filters(df, w).rows) < Len(filtered_df.rows)

\* the widget values w with the selection of one field lifted
Unrestricted(w, field) ==
  CASE field = "Region" -> [w EXCEPT !.selected_regions = {"All"}]
    [] field = "Product_Group" -> [w EXCEPT !.selected_product_groups = {"All"}]
    [] field = "Sales_Channel" -> [w EXCEPT !.selected_sales_channels = {"All"}]

SelectionOf(w, field) ==
  CASE field = "Region" -> w.selected_regions
    [] field = "Product_Group" -> w.selected_product_groups
    [] field = "Sales_Channel" -> w.selected_sales_channels

\* C3: a selection that is empty or contains "All" places no restriction on
\* its field: the filtered view holds every row that passes the other
\* filters.
C3_EmptyOrAllUnrestricted ==
  pc = "rendered" =>
    \A field \in {"Region", "Product_Group", "Sales_Channel"} :
      (SelectionOf(ui, field) = {} \/ "All" \in SelectionOf(ui, field)) =>
        filtered_df.rows =
          SelectSeq(df.rows, LAMBDA r : PassesAll(r, Unrestricted(ui, field)))

(***************************************************************************)
(* Properties of the aggregations.                                         *)
(***************************************************************************)
Keys(series) == [i \in 1..Len(series) |-> series[i].key]

SumValues(series) == SumSeq([i \in 1..Len(series) |-> series[i].value.v])

\* C4: the per-region sums of the amount add up to the total of the amount
\* over the filtered view: no row is lost or counted twice, rows without a
\* region included.
C4_SumConservation ==
  charts.drawn => SumValues(charts.region_sales) = charts.total_sales

\* the rows of the view whose column c is k, and the place of its first row
RowsWith(view, c, k) == {i \in 1..Len(view.rows) : view.rows[i][c] = k}

FirstRowWith(view, c, k) == MinOf(RowsWith(view, c, k))

PlaceIn(order, k) == CHOOSE i \in 1..Len(order) : order[i] = k

TopNs == (1..MaxTopN) \cup {TopProductGroups}

\* what top-N returns for the product groups of the view, and what it omits
TopGroups(view, n) ==
  NLargest(GroupBySum(view, "Product_Group", "Final_Line_Amount"), n)

OmittedGroups(view, n) ==
  SelectSeq(GroupBySum(view, "Product_Group", "Final_Line_Amount"),
            LAMBDA e : \A i \in 1..Len(TopGroups(view, n)) :
                          TopGroups(view, n)[i].key # e.key)

GroupCount(view, c) == Cardinality(UniqueText(view, c))

\* the sizes, the values and their order, without the tie-break
TopNSizeAndValues(view, n) ==
  LET top  == TopGroups(view, n)
      rest == OmittedGroups(view, n)
  IN /\ Len(top) = IF n <= GroupCount(view, "Product_Group") THEN n
                    ELSE GroupCount(view, "Product_Group")
     /\ \A i \in 1..Len(top) : \A j \in 1..Len(rest) :
           top[i].value.v >= rest[j].value.v
     /\ \A i \in 1..Len(top) :
           top[i].value.v =
             ColumnSum(Where(view, LAMBDA r : r["Product_Group"] = top[i].key),
                       "Final_Line_Amount")
     /\ \A i, j \in 1..Len(top) : i < j => top[i].value.v >= top[j].value.v

\* C5 (as amended): top-N returns exactly min(N, number of groups) groups,
\* largest sum first; every group it returns has a sum at least that of
\* every group it omits; of groups with equal sums it prefers the one whose
\* key comes first in ascending key order, the order of the grouped result.
C5_TopN ==
  charts.drawn =>
    /\ charts.product_sales = TopGroups(filtered_df, TopProductGroups)
    /\ \A n \in TopNs :
          LET top  == TopGroups(filtered_df, n)
              rest == OmittedGroups(filtered_df, n)
          IN /\ TopNSizeAndValues(filtered_df, n)
             /\ \A i \in 1..Len(top) : \A j \in 1..Len(rest) :
                   top[i].value.v = rest[j].value.v =>
                     PlaceIn(Collation, top[i].key) < PlaceIn(Collation, rest[j].key)
             /\ \A i, j \in 1..Len(top) :
                   (i < j /\ top[i].value.v = top[j].value.v) =>
                     PlaceIn(Collation, top[i].key) < PlaceIn(Collation, top[j].key)

\* C5 as stated: the same, with ties going to the group that is met first
\* in the rows of the table.
C5_TopN_FirstEncountered ==
  charts.drawn =>
    \A n \in TopNs :
      LET top  == TopGroups(filtered_df, n)
          rest == OmittedGroups(filtered_df, n)
      IN /\ TopNSizeAndValues(filtered_df, n)
         /\ \A i \in 1..Len(top) : \A j \in 1..Len(rest) :
               top[i].value.v = rest[j].value.v =>
                 FirstRowWith(filtered_df, "Product_Group", top[i].key)
                   < FirstRowWith(filtered_df, "Product_Group", rest[j].key)

\* top-1 over two product groups with equal sums
C5_Witness ==
  /\ charts.drawn
  /\ Len(TopGroups(filtered_df, 1)) = 1
  /\ Len(OmittedGroups(filtered_df, 1)) = 1
  /\ TopGroups(filtered_df, 1)[1].value.v = OmittedGroups(filtered_df, 1)[1].value.v

\* the weekday of a date, Monday being 0, counted from 1 Jan 2024, a Monday
WeekdayOf(ts) == (Ordinal(ts) - Ordinal([year |-> 2024, month |-> 1, day |-> 1])) % 7

DaysPresent(view) ==
  {day_of_week_order[WeekdayOf(view.rows[i]["Posting_Date"]) + 1] :
     i \in 1..Len(view.rows)}

SumOnDay(view, day) ==
  ColumnSum(Where(view, LAMBDA r :
                    day_of_week_order[WeekdayOf(r["Posting_Date"]) + 1] = day),
            "Final_Line_Amount")

\* C6 (as amended): the day-of-week aggregation has seven entries, Monday
\* to Sunday in that order; the entry of a day that occurs in the filtered
\* view carries the sum of that day, the entry of a day that does not occur
\* carries a missing value (not zero).
C6_DayOfWeekReindexed ==
  charts.drawn =>
    /\ Keys(charts.daily_sales) = day_of_week_order
    /\ \A i \in 1..Len(charts.daily_sales) :
          LET e == charts.daily_sales[i] IN
            IF e.key \in DaysPresent(filtered_df)
            THEN e.value = Num(SumOnDay(filtered_df, e.key))
            ELSE e.value = NaN

\* C6 as stated: an entry only for the days that occur in the filtered view,
\* in the order Monday to Sunday.
C6_DayOfWeekOmitsAbsent ==
  charts.drawn =>
    Keys(charts.daily_sales) =
      SelectSeq(day_of_week_order, LAMBDA d : d \in DaysPresent(filtered_df))

\* a view with a Wednesday row before a Monday row and no other day
C6_Witness ==
  /\ charts.drawn
  /\ Len(filtered_df.rows) = 2
  /\ filtered_df.rows[1]["Day_of_Week"] = "Wednesday"
  /\ filtered_df.rows[2]["Day_of_Week"] = "Monday"
  /\ charts.daily_sales[2].value = NaN

\* the quarter of a month, from the calendar
QuarterOfMonth(m) ==
  CASE m \in {1, 2, 3}    -> "Q1"
    [] m \in {4, 5, 6}    -> "Q2"
    [] m \in {7, 8, 9}    -> "Q3"
    [] m \in {10, 11, 12} -> "Q4"

QuartersPresent(view) ==
  {QuarterOfMonth(view.rows[i]["Posting_Date"].month) : i \in 1..Len(view.rows)}

\* C7: the quarter aggregation lists exactly the quarters that occur in the
\* filtered view, in the order Q1, Q2, Q3, Q4, whatever the order of the
\* rows, each with the sum of its rows.
C7_QuarterOrder ==
  charts.drawn =>
    /\ Keys(charts.quarterly_sales) =
         SelectSeq(quarter_order, LAMBDA q : q \in QuartersPresent(filtered_df))
    /\ \A i \in 1..Len(charts.quarterly_sales) :
          charts.quarterly_sales[i].value =
            Num(ColumnSum(Where(filtered_df, LAMBDA r :
                   QuarterOfMonth(r["Posting_Date"].month)
                     = charts.quarterly_sales[i].key),
                 "Final_Line_Amount"))

\* a view with a Q3 row before a Q1 row
C7_Witness ==
  /\ charts.drawn
  /\ Len(filtered_df.rows) = 2
  /\ filtered_df.rows[1]["Posting_Date"].month = 7
  /\ filtered_df.rows[2]["Posting_Date"].month = 1
  /\ Keys(charts.quarterly_sales) = <<"Q1", "Q3">>

MonthsPresent(view) ==
  {<<view.rows[i]["Posting_Date"].year, view.rows[i]["Posting_Date"].month>> :
     i \in 1..Len(view.rows)}

RowsInMonth(view, y, m) ==
  Where(view, LAMBDA r : r["Posting_Date"].year = y /\ r["Posting_Date"].month = m)

\* the month that follows the month of timestamp a
IsNextMonth(a, b) ==
  \/ a.month < 12 /\ b.year = a.year /\ b.month = a.month + 1
  \/ a.month = 12 /\ b.year = a.year + 1 /\ b.month = 1

\* C8 (as amended): the monthly trend has one entry per calendar month from
\* the first month with a row to the last, in chronological order and
\* without a gap; an entry carries the sum of the rows of its month, which
\* is 0 for a month in between that has no row.
C8_MonthlyGapFilled ==
  charts.drawn =>
    LET s == charts.monthly_sales IN
      /\ Len(s) >= 1
      /\ <<s[1].key.year, s[1].key.month>> \in MonthsPresent(filtered_df)
      /\ <<s[Len(s)].key.year, s[Len(s)].key.month>> \in MonthsPresent(filtered_df)
      /\ \A ym \in MonthsPresent(filtered_df) :
            \E i \in 1..Len(s) : s[i].key.year = ym[1] /\ s[i].key.month = ym[2]
      /\ \A i \in 1..(Len(s) - 1) : IsNextMonth(s[i].key, s[i + 1].key)
      /\ \A i \in 1..Len(s) :
            s[i].value =
              Num(ColumnSum(RowsInMonth(filtered_df, s[i].key.year, s[i].key.month),
                            "Final_Line_Amount"))

\* C8 as stated: exactly one entry per month that has a row, in
\* chronological order.
C8_MonthlyNoGapFill ==
  charts.drawn =>
    LET s == charts.monthly_sales IN
      /\ Len(s) = Cardinality(MonthsPresent(filtered_df))
      /\ \A i \in 1..Len(s) :
            <<s[i].key.year, s[i].key.month>> \in MonthsPresent(filtered_df)
      /\ \A i, j \in 1..Len(s) :
            i < j => Ordinal(s[i].key) < Ordinal(s[j].key)

\* rows in January and in July and none in between
C8_Witness ==
  /\ charts.drawn
  /\ MonthsPresent(filtered_df) = {<<2024, 1>>, <<2024, 7>>}
  /\ Len(charts.monthly_sales) = 7
  /\ charts.monthly_sales[2].value = Num(0)

(***************************************************************************)
(* Properties of the loader.                                               *)
(***************************************************************************)
\* the places of the source rows whose date text is a date
DatedSourceRows ==
  SelectSeq([i \in 1..Len(source.rows) |-> i],
            LAMBDA i : ToDatetime(ReadCell(source, "Posting Date ", i)) # NaT)

\* C9: in the table that load_data returns every row has a date, the rows
\* are the source rows whose date can be parsed, in source order, and every
\* declared numeric column holds a number in every row.
C9_LoadedTableNormalized ==
  (pc = "rendered" /\ df.ok) =>
    /\ \A i \in 1..Len(df.rows) : df.rows[i]["Posting_Date"] # NaT
    /\ IndexLabels(df) = [k \in 1..Len(DatedSourceRows) |-> DatedSourceRows[k] - 1]
    /\ \A i \in 1..Len(df.rows) : \A k \in 1..Len(numeric_cols) :
          df.rows[i][numeric_cols[k]].kind = "num"

\* a source with a row whose date is no date, and a row whose quantity is a
\* missing-value marker
C9_Witness ==
  /\ pc = "rendered" /\ df.ok
  /\ Len(df.rows) = 1 /\ Len(source.rows) = 2
  /\ \E i \in 1..Len(source.rows) :
        /\ source.rows[i]["Quantity"] = Text_NA
        /\ df.rows[1]["index"] = i - 1
        /\ df.rows[1]["Quantity"] = Num(0)

\* C10: for every readable source that has all its columns load_data returns
\* a table: a numeric cell that is locale-formatted or unparsable never makes
\* the load fail.
C10_LoadNeverFails ==
  (pc # "start" /\ source \in FullFiles) => (pc = "rendered" /\ df.ok)

\* C11: in every table that load_data returns, Sale_Over_1000 is true in a
\* row exactly when the row's coerced Final_Line_Amount is strictly greater
\* than 1000; an amount of exactly 1000 gives false.
C11_SaleOver1000 ==
  (pc = "rendered" /\ df.ok) =>
    \A i \in 1..Len(df.rows) :
       /\ df.rows[i]["Final_Line_Amount"].kind = "num"
       /\ df.rows[i]["Sale_Over_1000"] =
            (df.rows[i]["Final_Line_Amount"].v > Cents(1000))

\* a loaded table with an amount of exactly 1000 and an amount above it
C11_Witness ==
  /\ pc = "rendered" /\ df.ok
  /\ \E i, j \in 1..Len(df.rows) :
        /\ df.rows[i]["Final_Line_Amount"] = Num(Cents(1000))
        /\ ~df.rows[i]["Sale_Over_1000"]
        /\ df.rows[j]["Final_Line_Amount"].v > Cents(1000)
        /\ df.rows[j]["Sale_Over_1000"]

(***************************************************************************)
(* Properties of the memoized load.                                        *)
(***************************************************************************)
\* C12: in every cycle of the script, which leaves the source file as it
\* is, a memoized table is not parsed again, and the table the cycle works
\* on is the one normalized from the source file as it is now, also after
\* the file was changed.
C12_OncePerSourceVersion ==
  [][source' = source =>
       /\ cache.hit => cache' = cache
       /\ pc' = "rendered" => df' = load_data(source)]_vars

(***************************************************************************)
(* Properties of empty tables.                                             *)
(***************************************************************************)
\* no row of the view has an amount above 1000
NoneAbove1000(view) ==
  \A i \in 1..Len(view.rows) : view.rows[i]["Final_Line_Amount"].v <= Cents(1000)

\* the view after the first k filters of the script
ViewAfter(k) == ApplyInOrder(SubSeq(filter_order, 1, k), df, ui)

\* C13: an empty table is never an error.  The script stops only when the
\* load fails; when the loaded table is empty, or the view is empty after
\* any of the filter steps, the filtered view is empty and no aggregate is
\* computed; and when the view has rows but none above 1000, the aggregates
\* over the high-value rows are empty sequences.
C13_EmptyTableSafe ==
  /\ pc = "stopped" => ~df.ok
  /\ pc = "rendered" =>
       /\ \A k \in 0..Len(filter_order) :
             IsEmpty(ViewAfter(k)) => (IsEmpty(filtered_df) /\ charts = NoCharts)
       /\ (charts.drawn /\ NoneAbove1000(filtered_df)) =>
             /\ charts.high_value_region_sales = <<>>
             /\ charts.high_value_product_sales = <<>>

\* a loaded table with rows, emptied by one of the selections, and before
\* that a view with rows of which none is above 1000
C13_Witness ==
  /\ pc = "rendered"
  /\ ~IsEmpty(df) /\ NoneAbove1000(df)
  /\ ui.all_regions # <<>>
  /\ IsEmpty(filtered_df)

(***************************************************************************)
(* Properties of the date range.                                           *)
(***************************************************************************)
\* the widget values w with no date range given
DateRangeAbsent(w) == [w EXCEPT !.date_range = <<>>]

\* C14: when the date range is not a complete pair of bounds the view is
\* the one the same criteria give with no date range, the date filter
\* keeping every row; when both bounds are given the date filter keeps
\* exactly the rows with start <= Posting_Date <= end, both inclusive.
C14_DateRange ==
  (pc = "rendered" /\ ~IsEmpty(df)) =>
    /\ Len(ui.date_range) # 2 =>
          /\ ViewAfter(1) = df
          /\ filtered_df = apply_filters(df, DateRangeAbsent(ui))
    /\ Len(ui.date_range) = 2 =>
          ViewAfter(1).rows =
            SelectSeq(df.rows,
                      LAMBDA r :
                        /\ Ordinal(ui.date_range[1]) <= Ordinal(r["Posting_Date"])
                        /\ Ordinal(r["Posting_Date"]) <= Ordinal(ui.date_range[2]))

\* a single endpoint is picked, later than the first date of the table, and
\* the rows before it are in the view
C14_Witness ==
  /\ pc = "rendered"
  /\ Len(ui.date_range) = 1
  /\ ui.date_range[1] # ui.date_opts[1]
  /\ Len(df.rows) >= 2
  /\ filtered_df = df

(***************************************************************************)
(* Properties of a source without a declared numeric column.               *)
(***************************************************************************)
\* the declared numeric columns that the header of the source has
PresentNumericCols ==
  {numeric_cols[k] : k \in 1..Len(numeric_cols)}
    \cap {RenameLabel(StripLabel(source.header[i])) : i \in 1..Len(source.header)}

\* the amounts of the source are plain decimal numbers or missing: the
\* comparison of line 58 is between numbers
PlainAmounts == IsNumberColumn(source, "Final Line Amount (A-B+C)")

\* C15: for a readable source that lacks a declared numeric column,
\* load_data still returns a table, with a number in every cell of the
\* numeric columns that are present and no column for the absent ones.
C15_AbsentNumericColumnsTolerated ==
  (/\ pc # "start"
   /\ PlainAmounts
   /\ PresentNumericCols # {numeric_cols[k] : k \in 1..Len(numeric_cols)}) =>
    /\ pc = "rendered" /\ df.ok
    /\ \A k \in 1..Len(numeric_cols) :
          HasColumn(df, numeric_cols[k]) <=> numeric_cols[k] \in PresentNumericCols
    /\ \A i \in 1..Len(df.rows) : \A c \in PresentNumericCols :
          df.rows[i][c].kind = "num"

(***************************************************************************)
(* Properties of the overview metrics.                                     *)
(***************************************************************************)
\* C16: for every non-empty filtered view the percentage of transactions
\* above 1000 lies between 0 and 100, the count of transactions above 1000
\* is at most the number of distinct document numbers it is divided by, and
\* the percentage is 0 when that number is 0.
C16_PercentageIsProportion ==
  charts.drawn =>
    /\ charts.percentage_over_1000 >= 0
    /\ charts.percentage_over_1000 <= Cents(100)
    /\ charts.sales_over_1000 <= charts.total_transactions
    /\ charts.total_transactions = 0 => charts.percentage_over_1000 = 0

=============================================================================
